---- MODULE Spec2Model ----
(***************************************************************************)
(* State-machine model of the Agentic Boardroom core:                      *)
(*   - AuthSystem      (users, sessions, roles, tokens)                     *)
(*   - AgentChatSystem (conversations, reply dispatch, realtime fan-out)    *)
(*                                                                         *)
(* Every async method is split at its awaits: the part that runs           *)
(* synchronously at the call is one action ("...Call"), each continuation  *)
(* after an await is another ("...Resume"), and the locals the             *)
(* continuation closes over are kept in the record of the suspended call.  *)
(* JavaScript is single-threaded, so each part is atomic.                  *)
(*                                                                         *)
(* JS `undefined` is encoded by the tokens UndefString (where the code     *)
(* expects a string), UndefArray (an array) and UndefNumber (a number).    *)
(* Arrays without duplicates that are only read with includes() are sets.  *)
(* Strings that the code takes apart (emails, message texts) are           *)
(* sequences of one-character strings.                                     *)
(* The stamps no operation ever reads back (createdAt, updatedAt,          *)
(* startedAt, a message's id and timestamp, a token's iat) are left out;   *)
(* lastLogin, lastActivity, endedAt and the expiry times are kept.         *)
(***************************************************************************)
EXTENDS Integers, Sequences, FiniteSets, Bags, TLC

VARIABLES
    now,               \* the wall clock read by new Date() / Date.now(), in ticks
    users,             \* AuthSystem.users      : sequence, user id = index
    sessions,          \* AuthSystem.sessions   : session id -> session record
    sessionIds,        \* number of session ids (uuids) issued so far
    issuedTokens,      \* tokens handed to callers by login (what a client may present)
    authCalls,         \* bag of suspended AuthSystem calls (awaiting bcrypt)
    conversations,     \* AgentChatSystem.conversations : sequence, conversation id = index
    chatCalls,         \* bag of suspended AgentChatSystem calls (awaiting the AI provider)
    activeConnections, \* AgentChatSystem.activeConnections : userId -> set of sockets
    listeners,         \* 'disconnect' listeners installed by registerConnection
    closed,            \* sockets whose transport has closed
    emitted,           \* lifecycle events emitted (EventEmitter.emit) by the last step
    delivered,         \* socket.emit('realtime:update') calls made by the last step
    result             \* what the last step returned or threw to its caller

vars == <<now, users, sessions, sessionIds, issuedTokens, authCalls, conversations,
          chatCalls, activeConnections, listeners, closed, emitted, delivered, result>>

authVars == <<users, sessions, sessionIds, issuedTokens, authCalls>>
chatVars == <<conversations, chatCalls>>
connVars == <<activeConnections, listeners, closed>>

-----------------------------------------------------------------------------
(* Bounds of the model *)

MaxTime == 2        \* clock ticks
MaxUsers == 2       \* users the identity store may hold (identity specification)
MaxSessions == 2    \* sessions that may be issued
MaxAuthCalls == 2   \* AuthSystem calls suspended at once
MaxConvs == 2       \* conversations that may be started
MaxMsgs == 5        \* messages over all conversations, stored or in flight
MaxChatCalls == 2   \* AgentChatSystem calls suspended at once
MaxLimit == 2       \* largest page size / offset asked of getUserConversations
MaxTurnMsgs == 13   \* messages over all conversations when calls run one after another
MaxPairMsgs == 6    \* messages over all conversations when two conversations are written side by side

-----------------------------------------------------------------------------
(* JavaScript values *)

UndefString == "<undefined>"
UndefArray == {"<undefined>"}
UndefNumber == -1
NoTime == -1          \* null / undefined timestamp

\* String.prototype.toLowerCase over the alphabet the inputs use
LowerChar(c) ==
    CASE c = "A" -> "a" [] c = "B" -> "b" [] c = "P" -> "p" [] c = "L" -> "l"
      [] c = "N" -> "n" [] c = "S" -> "s" [] c = "G" -> "g" [] c = "O" -> "o"
      [] OTHER -> c
toLowerCase(s) == [i \in 1..Len(s) |-> LowerChar(s[i])]

\* keys every object literal inherits from Object.prototype: obj[key] is truthy for them
ObjectPrototypeKeys == {"constructor", "toString", "valueOf", "hasOwnProperty", "__proto__"}

-----------------------------------------------------------------------------
(* AuthSystem.initializeRoles *)

roles ==
    [super_admin |-> [permissions   |-> {"*"},
                      agentAccess   |-> {"overlord", "all_agents"},
                      spendingLimit |-> 1000000],
     executive   |-> [permissions   |-> {"view_all_agents", "interact_with_executives",
                                         "approve_decisions", "view_analytics", "manage_budgets"},
                      agentAccess   |-> {"ceo", "cto", "cfo", "document_analyst"},
                      spendingLimit |-> 100000],
     manager     |-> [permissions   |-> {"view_team_agents", "assign_tasks", "view_reports",
                                         "interact_with_assigned_agents"},
                      agentAccess   |-> {"research_director", "innovation_lead", "quality_assurance"},
                      spendingLimit |-> 10000],
     employee    |-> [permissions   |-> {"view_dashboard", "interact_with_support_agents",
                                         "create_tasks", "view_own_reports"},
                      agentAccess   |-> {"meeting_facilitator", "culture_champion", "company_mascot"},
                      spendingLimit |-> 1000],
     guest       |-> [permissions   |-> {"view_dashboard", "view_public_reports"},
                      agentAccess   |-> {"company_mascot"},
                      spendingLimit |-> 0]]

\* truthiness of this.roles[role]: own keys, and the keys inherited from Object.prototype
RoleTruthy(role) == role \in DOMAIN roles \/ role \in ObjectPrototypeKeys

\* this.roles[role].permissions / .agentAccess / .spendingLimit
RoleGrants(role) ==
    IF role \in DOMAIN roles THEN roles[role]
    ELSE [permissions |-> UndefArray, agentAccess |-> UndefArray, spendingLimit |-> UndefNumber]

-----------------------------------------------------------------------------
(* bcrypt and jsonwebtoken *)

\* bcrypt.hash(password, 12): a digest string that embeds cost and salt
BcryptHash(password) == "$2a$12$" \o password
\* bcrypt.compare(password, hash)
BcryptCompare(password, hash) == BcryptHash(password) = hash

TokenTTL == 1       \* expiresIn: '24h', in ticks of 24 hours
SessionTTL == 1     \* 24 * 60 * 60 * 1000 ms, in ticks of 24 hours

\* jwt.sign({userId, email, role, permissions}, secret, {expiresIn: '24h'})
JwtSign(uid, user) ==
    [userId |-> uid, email |-> user.email, role |-> user.role,
     permissions |-> user.permissions, exp |-> now + TokenTTL, signed |-> TRUE]
\* jwt.verify(token, secret) succeeds: good signature, not yet expired
JwtValid(token) == token.signed /\ now < token.exp
\* a token that was not signed with the secret
ForgedToken ==
    [userId |-> 1, email |-> <<"a">>, role |-> "super_admin", permissions |-> {"*"},
     exp |-> MaxTime + TokenTTL + 1, signed |-> FALSE]

-----------------------------------------------------------------------------
(* What a step hands back to its caller *)

NoResult == [op |-> "none", outcome |-> "none", error |-> "", value |-> <<>>]
Returned(op, value) == [op |-> op, outcome |-> "returned", error |-> "", value |-> value]
Threw(op, message) == [op |-> op, outcome |-> "threw", error |-> message, value |-> <<>>]

\* a step of the identity store emits no lifecycle event and sends nothing to sockets
Quiet == emitted' = <<>> /\ delivered' = {}

-----------------------------------------------------------------------------
(* AuthSystem: helpers *)

UserIds == 1..MaxUsers
Exists(uid) == uid \in DOMAIN users

\* Array.prototype.includes on user.permissions / user.agentAccess;
\* on undefined the property read throws a TypeError
IncludesThrows(arr) == arr = UndefArray
Includes(arr, x) == x \in arr

\* findUserByEmail: the first user whose stored email equals email.toLowerCase(); 0 when none
findUserByEmail(email) ==
    LET hits == {u \in DOMAIN users : users[u].email = toLowerCase(email)}
    IN  IF hits = {} THEN 0 ELSE CHOOSE u \in hits : \A v \in hits : u <= v

\* sanitizeUser: every field but the password
sanitizeUserKeepingAll(user) == user
sanitizeUser(user) == [f \in (DOMAIN user) \ {"password"} |-> user[f]]

\* a variant of hasPermission that grants every permission to every stored user
hasPermissionGranted(userId, permission) ==
    IF ~Exists(userId) THEN "false" ELSE "true"

\* hasPermission(userId, permission): "false" | "true" | "throws"
hasPermission(userId, permission) ==
    IF ~Exists(userId) THEN "false"
    ELSE IF IncludesThrows(users[userId].permissions) THEN "throws"
    ELSE IF Includes(users[userId].permissions, "*") THEN "true"
    ELSE IF Includes(users[userId].permissions, permission) THEN "true" ELSE "false"

\* canAccessAgent(userId, agentName): "false" | "true" | "throws"
canAccessAgent(userId, agentName) ==
    IF ~Exists(userId) THEN "false"
    ELSE IF IncludesThrows(users[userId].agentAccess) THEN "throws"
    ELSE IF Includes(users[userId].agentAccess, "all_agents") THEN "true"
    ELSE IF Includes(users[userId].agentAccess, agentName) THEN "true" ELSE "false"

TypeErrorMessage == "Cannot read properties of undefined (reading 'includes')"

PendingRegisters == BagCardinality([c \in {d \in DOMAIN authCalls : d.op = "register"} |-> authCalls[c]])
PendingLogins == BagCardinality([c \in {d \in DOMAIN authCalls : d.op = "login"} |-> authCalls[c]])
Suspend(call) == authCalls' = authCalls (+) SetToBag({call})
Finish(call) == authCalls' = authCalls (-) SetToBag({call})
CanSuspendAuth == BagCardinality(authCalls) < MaxAuthCalls

-----------------------------------------------------------------------------
(* AuthSystem.register *)

\* the destructuring default: role = 'employee' when userData.role is undefined
RoleOrDefault(role) == IF role = UndefString THEN "employee" ELSE role

newUser(d, hashedPassword) ==
    [email         |-> toLowerCase(d.email),
     password      |-> hashedPassword,
     firstName     |-> d.firstName,
     lastName      |-> d.lastName,
     role          |-> d.role,
     department    |-> d.department,
     permissions   |-> RoleGrants(d.role).permissions,
     agentAccess   |-> RoleGrants(d.role).agentAccess,
     spendingLimit |-> RoleGrants(d.role).spendingLimit,
     lastLogin     |-> NoTime,
     isActive      |-> TRUE,
     preferences   |-> "theme:light"]

\* register, up to `await bcrypt.hash(password, 12)`
RegisterCall(userData) ==
    LET d == [userData EXCEPT !.role = RoleOrDefault(userData.role)]
        missing == d.email = <<>> \/ d.password = "" \/ d.firstName = "" \/ d.lastName = ""
    IN  /\ Quiet
        /\ IF missing
           THEN /\ result' = Threw("register", "Missing required fields")
                /\ UNCHANGED authCalls
           ELSE IF findUserByEmail(d.email) # 0
           THEN /\ result' = Threw("register", "User already exists")
                /\ UNCHANGED authCalls
           ELSE IF ~RoleTruthy(d.role)
           THEN /\ result' = Threw("register", "Invalid role specified")
                /\ UNCHANGED authCalls
           ELSE /\ CanSuspendAuth
                /\ Len(users) + PendingRegisters < MaxUsers
                /\ Suspend([op |-> "register", data |-> d])
                /\ result' = NoResult
        /\ UNCHANGED <<now, users, sessions, sessionIds, issuedTokens, chatVars, connVars>>

\* register, after the hash is computed: the user is stored, the sanitized view returned
RegisterResume(call) ==
    /\ BagIn(call, authCalls) /\ call.op = "register"
    /\ Quiet
    /\ Finish(call)
    /\ users' = Append(users, newUser(call.data, BcryptHash(call.data.password)))
    /\ result' = Returned("register", sanitizeUser(users'[Len(users')]))
    /\ UNCHANGED <<now, sessions, sessionIds, issuedTokens, chatVars, connVars>>

-----------------------------------------------------------------------------
(* AuthSystem.login *)

\* login, up to `await bcrypt.compare(password, user.password)`
LoginCall(email, password) ==
    LET uid == findUserByEmail(email)
    IN  /\ Quiet
        /\ IF uid = 0
           THEN /\ result' = Threw("login", "Invalid credentials")
                /\ UNCHANGED authCalls
           ELSE IF ~users[uid].isActive
           THEN /\ result' = Threw("login", "Account is deactivated")
                /\ UNCHANGED authCalls
           ELSE /\ CanSuspendAuth
                /\ sessionIds + PendingLogins < MaxSessions
                /\ Suspend([op |-> "login", userId |-> uid,
                            isValidPassword |-> BcryptCompare(password, users[uid].password)])
                /\ result' = NoResult
        /\ UNCHANGED <<now, users, sessions, sessionIds, issuedTokens, chatVars, connVars>>

\* a variant of LoginResume that stamps last-login and then refuses the login
LoginResumeStamping(call) ==
    /\ BagIn(call, authCalls) /\ call.op = "login"
    /\ Quiet
    /\ Finish(call)
    /\ users' = [users EXCEPT ![call.userId].lastLogin = now]
    /\ result' = Threw("login", "Invalid credentials")
    /\ UNCHANGED <<now, sessions, sessionIds, issuedTokens, chatVars, connVars>>

\* login, after the comparison: last-login, token, session
LoginResume(call) ==
    /\ BagIn(call, authCalls) /\ call.op = "login"
    /\ Quiet
    /\ Finish(call)
    /\ IF ~call.isValidPassword
       THEN /\ result' = Threw("login", "Invalid credentials")
            /\ UNCHANGED <<users, sessions, sessionIds, issuedTokens>>
       ELSE LET uid == call.userId
                user == [users[uid] EXCEPT !.lastLogin = now]
                token == JwtSign(uid, user)
                sessionId == sessionIds + 1
            IN  /\ users' = [users EXCEPT ![uid] = user]
                /\ sessionIds' = sessionId
                /\ sessions' = [s \in DOMAIN sessions \cup {sessionId} |->
                                   IF s = sessionId
                                   THEN [userId |-> uid, token |-> token,
                                         expiresAt |-> now + SessionTTL]
                                   ELSE sessions[s]]
                /\ issuedTokens' = issuedTokens \cup {token}
                /\ result' = Returned("login",
                                 [token |-> token, sessionId |-> sessionId,
                                  user |-> sanitizeUser(user)])
    /\ UNCHANGED <<now, chatVars, connVars>>

-----------------------------------------------------------------------------
(* AuthSystem.logout, verifyToken *)

\* a variant of logout that ends every session of the session's user
logoutEverywhere(sessionId) ==
    /\ Quiet
    /\ IF sessionId \in DOMAIN sessions
       THEN /\ sessions' = [s \in {t \in DOMAIN sessions :
                                     sessions[t].userId # sessions[sessionId].userId} |-> sessions[s]]
            /\ result' = Returned("logout",
                             [success |-> TRUE, message |-> "Logged out successfully"])
       ELSE /\ UNCHANGED sessions
            /\ result' = Returned("logout",
                             [success |-> FALSE, message |-> "Session not found"])
    /\ UNCHANGED <<now, users, sessionIds, issuedTokens, authCalls, chatVars, connVars>>

logout(sessionId) ==
    /\ Quiet
    /\ IF sessionId \in DOMAIN sessions
       THEN /\ sessions' = [s \in DOMAIN sessions \ {sessionId} |-> sessions[s]]
            /\ result' = Returned("logout",
                             [success |-> TRUE, message |-> "Logged out successfully"])
       ELSE /\ UNCHANGED sessions
            /\ result' = Returned("logout",
                             [success |-> FALSE, message |-> "Session not found"])
    /\ UNCHANGED <<now, users, sessionIds, issuedTokens, authCalls, chatVars, connVars>>

\* the outcome of verifyToken: it catches every error and returns {success: false, error}
\* a variant of verifyTokenOutcome that answers with the role and permissions of the claims
verifyTokenOutcomeFromClaims(token) ==
    IF ~JwtValid(token)
    THEN [success |-> FALSE, error |-> "invalid token"]
    ELSE IF ~Exists(token.userId) \/ ~users[token.userId].isActive
    THEN [success |-> FALSE, error |-> "User not found or inactive"]
    ELSE [success |-> TRUE,
          user |-> [sanitizeUser(users[token.userId]) EXCEPT !.role = token.role,
                                                             !.permissions = token.permissions],
          decoded |-> token]

verifyTokenOutcome(token) ==
    IF ~JwtValid(token)
    THEN [success |-> FALSE, error |-> "invalid token"]
    ELSE IF ~Exists(token.userId) \/ ~users[token.userId].isActive
    THEN [success |-> FALSE, error |-> "User not found or inactive"]
    ELSE [success |-> TRUE, user |-> sanitizeUser(users[token.userId]), decoded |-> token]

verifyToken(token) ==
    /\ Quiet
    /\ result' = Returned("verifyToken", verifyTokenOutcome(token))
    /\ UNCHANGED <<now, authVars, chatVars, connVars>>

-----------------------------------------------------------------------------
(* AuthSystem.updateProfile, changePassword *)

allowedUpdates == {"firstName", "lastName", "department", "preferences"}

\* a variant of applyProfileUpdates that assigns every key of the update
applyProfileUpdatesUnfiltered(user, updates) ==
    [f \in DOMAIN user |-> IF f \in DOMAIN updates THEN updates[f] ELSE user[f]]

\* Object.assign(user, updateData, ...) with the whitelisted keys only
applyProfileUpdates(user, updates) ==
    [f \in DOMAIN user |->
        IF f \in allowedUpdates /\ f \in DOMAIN updates THEN updates[f] ELSE user[f]]

updateProfile(userId, updates) ==
    /\ Quiet
    /\ IF ~Exists(userId)
       THEN /\ result' = Threw("updateProfile", "User not found")
            /\ UNCHANGED users
       ELSE /\ users' = [users EXCEPT ![userId] = applyProfileUpdates(users[userId], updates)]
            /\ result' = Returned("updateProfile", sanitizeUser(users'[userId]))
    /\ UNCHANGED <<now, sessions, sessionIds, issuedTokens, authCalls, chatVars, connVars>>

\* changePassword, up to `await bcrypt.compare(currentPassword, user.password)`
ChangePasswordCall(userId, currentPassword, newPassword) ==
    /\ Quiet
    /\ IF ~Exists(userId)
       THEN /\ result' = Threw("changePassword", "User not found")
            /\ UNCHANGED authCalls
       ELSE /\ CanSuspendAuth
            /\ Suspend([op |-> "changePassword", stage |-> "compare", userId |-> userId,
                        isValidPassword |-> BcryptCompare(currentPassword, users[userId].password),
                        newPassword |-> newPassword])
            /\ result' = NoResult
    /\ UNCHANGED <<now, users, sessions, sessionIds, issuedTokens, chatVars, connVars>>

\* changePassword, between the comparison and `await bcrypt.hash(newPassword, 12)`
ChangePasswordCompared(call) ==
    /\ BagIn(call, authCalls) /\ call.op = "changePassword" /\ call.stage = "compare"
    /\ Quiet
    /\ IF ~call.isValidPassword
       THEN /\ Finish(call)
            /\ result' = Threw("changePassword", "Current password is incorrect")
       ELSE /\ authCalls' = (authCalls (-) SetToBag({call}))
                               (+) SetToBag({[call EXCEPT !.stage = "hash"]})
            /\ result' = NoResult
    /\ UNCHANGED <<now, users, sessions, sessionIds, issuedTokens, chatVars, connVars>>

\* changePassword, after the hash: the new digest is stored
ChangePasswordResume(call) ==
    /\ BagIn(call, authCalls) /\ call.op = "changePassword" /\ call.stage = "hash"
    /\ Quiet
    /\ Finish(call)
    /\ users' = [users EXCEPT ![call.userId].password = BcryptHash(call.newPassword)]
    /\ result' = Returned("changePassword", "Password changed successfully")
    /\ UNCHANGED <<now, sessions, sessionIds, issuedTokens, chatVars, connVars>>

-----------------------------------------------------------------------------
(* AuthSystem.updateUserRole, deactivateUser, getAllUsers, cleanupExpiredSessions *)

\* the role, and the three grants copied from it
assignRole(user, newRole) ==
    [user EXCEPT !.role = newRole,
                 !.permissions = RoleGrants(newRole).permissions,
                 !.agentAccess = RoleGrants(newRole).agentAccess,
                 !.spendingLimit = RoleGrants(newRole).spendingLimit]

updateUserRole(adminUserId, targetUserId, newRole) ==
    /\ Quiet
    /\ IF ~Exists(adminUserId) \/ ~Exists(targetUserId)
       THEN /\ result' = Threw("updateUserRole", "User not found")
            /\ UNCHANGED users
       ELSE IF hasPermission(adminUserId, "*") = "throws"
       THEN /\ result' = Threw("updateUserRole", TypeErrorMessage)
            /\ UNCHANGED users
       ELSE IF hasPermission(adminUserId, "*") = "false" /\ users[adminUserId].role # "super_admin"
       THEN /\ result' = Threw("updateUserRole", "Insufficient permissions")
            /\ UNCHANGED users
       ELSE IF ~RoleTruthy(newRole)
       THEN /\ result' = Threw("updateUserRole", "Invalid role specified")
            /\ UNCHANGED users
       ELSE /\ users' = [users EXCEPT ![targetUserId] = assignRole(users[targetUserId], newRole)]
            /\ result' = Returned("updateUserRole", sanitizeUser(users'[targetUserId]))
    /\ UNCHANGED <<now, sessions, sessionIds, issuedTokens, authCalls, chatVars, connVars>>

\* a variant of purgeSessions that deletes nothing
purgeSessionsOfNobody(targetUserId) == sessions

\* the sessions left after every session of targetUserId is deleted
purgeSessions(targetUserId) ==
    [s \in {t \in DOMAIN sessions : sessions[t].userId # targetUserId} |-> sessions[s]]

deactivateUser(adminUserId, targetUserId) ==
    /\ Quiet
    /\ IF ~Exists(adminUserId) \/ ~Exists(targetUserId)
       THEN /\ result' = Threw("deactivateUser", "User not found")
            /\ UNCHANGED <<users, sessions>>
       ELSE IF hasPermission(adminUserId, "*") = "throws"
       THEN /\ result' = Threw("deactivateUser", TypeErrorMessage)
            /\ UNCHANGED <<users, sessions>>
       ELSE IF hasPermission(adminUserId, "*") = "false"
       THEN /\ result' = Threw("deactivateUser", "Insufficient permissions")
            /\ UNCHANGED <<users, sessions>>
       ELSE /\ users' = [users EXCEPT ![targetUserId].isActive = FALSE]
            /\ sessions' = purgeSessions(targetUserId)
            /\ result' = Returned("deactivateUser", "User deactivated successfully")
    /\ UNCHANGED <<now, sessionIds, issuedTokens, authCalls, chatVars, connVars>>

getAllUsers(adminUserId) ==
    /\ Quiet
    /\ IF ~Exists(adminUserId) \/ hasPermission(adminUserId, "*") = "false"
       THEN result' = Threw("getAllUsers", "Insufficient permissions")
       ELSE IF hasPermission(adminUserId, "*") = "throws"
       THEN result' = Threw("getAllUsers", TypeErrorMessage)
       ELSE result' = Returned("getAllUsers",
                          [users |-> [u \in DOMAIN users |-> sanitizeUser(users[u])],
                           total |-> Len(users)])
    /\ UNCHANGED <<now, authVars, chatVars, connVars>>

\* a session is swept when session.expiresAt < now
expiredOrDue(session) == session.expiresAt <= now
expired(session) == session.expiresAt < now

cleanupExpiredSessions ==
    /\ Quiet
    /\ sessions' = [s \in {t \in DOMAIN sessions : ~expired(sessions[t])} |-> sessions[s]]
    /\ result' = Returned("cleanupExpiredSessions", <<>>)
    /\ UNCHANGED <<now, users, sessionIds, issuedTokens, authCalls, chatVars, connVars>>

\* time passes
Tick ==
    /\ now < MaxTime
    /\ now' = now + 1
    /\ Quiet
    /\ result' = NoResult
    /\ UNCHANGED <<authVars, chatVars, connVars>>

-----------------------------------------------------------------------------
(* AgentChatSystem.initializeAgentProfiles (greetings cut to their first sentence) *)

agentProfiles ==
    [ceo |-> [name |-> "CEO Agent", title |-> "Chief Executive Officer",
              personality |-> "Strategic, visionary, decisive",
              greeting |-> "Hello! I'm your CEO Agent.", model |-> "gpt-4o"],
     cto |-> [name |-> "CTO Agent", title |-> "Chief Technology Officer",
              personality |-> "Technical, innovative, systematic",
              greeting |-> "Hi there! I'm your CTO Agent.", model |-> "claude-3-sonnet"],
     cfo |-> [name |-> "CFO Agent", title |-> "Chief Financial Officer",
              personality |-> "Analytical, precise, risk-aware",
              greeting |-> "Welcome! I'm your CFO Agent.", model |-> "gpt-4o"],
     research_director |->
             [name |-> "Research Director", title |-> "Director of Research & Intelligence",
              personality |-> "Analytical, thorough, insightful",
              greeting |-> "Hello! I'm your Research Director.", model |-> "gemini-1.5-pro"],
     innovation_lead |->
             [name |-> "Innovation Lead", title |-> "Lead Innovation Officer",
              personality |-> "Creative, energetic, forward-thinking",
              greeting |-> "Hey! I'm your Innovation Lead.", model |-> "gpt-4o"],
     quality_assurance |->
             [name |-> "Quality Assurance Director", title |-> "Director of Quality Assurance",
              personality |-> "Meticulous, systematic, quality-focused",
              greeting |-> "Good day! I'm your Quality Assurance Director.",
              model |-> "claude-3-sonnet"],
     meeting_facilitator |->
             [name |-> "Meeting Facilitator", title |-> "Senior Meeting Facilitator",
              personality |-> "Organized, diplomatic, efficient",
              greeting |-> "Hello! I'm your Meeting Facilitator.", model |-> "gemini-1.5-flash"],
     culture_champion |->
             [name |-> "Culture Champion", title |-> "Chief Culture Officer",
              personality |-> "Empathetic, inspiring, people-focused",
              greeting |-> "Hi there! I'm your Culture Champion.", model |-> "claude-3-opus"],
     company_mascot |->
             [name |-> "Company Mascot", title |-> "Chief Happiness Officer",
              personality |-> "Fun, energetic, uplifting",
              greeting |-> "Hey there, superstar!", model |-> "gpt-4o"],
     document_analyst |->
             [name |-> "Document Analyst", title |-> "Senior Document Intelligence Officer",
              personality |-> "Thorough, precise, detail-oriented",
              greeting |-> "Hello! I'm your Document Analyst.", model |-> "gemini-1.5-pro"]]

\* truthiness of this.agentProfiles[agentId]
AgentTruthy(agentId) == agentId \in DOMAIN agentProfiles \/ agentId \in ObjectPrototypeKeys

\* this.agentProfiles[agentId]; an inherited key yields an object without these fields
\* (Object.prototype.constructor is the function named "Object")
Agent(agentId) ==
    IF agentId \in DOMAIN agentProfiles THEN agentProfiles[agentId]
    ELSE [name |-> IF agentId = "constructor" THEN "Object" ELSE UndefString,
          title |-> UndefString, personality |-> UndefString,
          greeting |-> UndefString, model |-> UndefString]

-----------------------------------------------------------------------------
(* Messages *)

NoMetadata ==
    [messageType |-> "", model |-> "", confidence |-> 0, tokens |-> 0,
     error |-> FALSE, fallback |-> FALSE]

\* a template literal: the fixed text, the quoted user message and the agent role put into it
Content(template, about, role) == [template |-> template, about |-> about, role |-> role]
PlainText(text) == Content("%s", text, "")

userMessageOf(userId, text) ==
    [type |-> "user", userId |-> userId, agentId |-> "", content |-> PlainText(text),
     metadata |-> NoMetadata]

greetingMessageOf(agentId) ==
    [type |-> "agent", userId |-> 0, agentId |-> agentId,
     content |-> Content(Agent(agentId).greeting, <<>>, ""),
     metadata |-> [NoMetadata EXCEPT !.messageType = "greeting"]]

FallbackText ==
    "I apologize, but I'm experiencing some technical difficulties right now. Please try again in a moment."

\* a variant of fallbackMessageOf whose metadata carries no flag
fallbackMessageOfUnmarked(agentId) ==
    [type |-> "agent", userId |-> 0, agentId |-> agentId,
     content |-> Content(FallbackText, <<>>, ""),
     metadata |-> NoMetadata]

fallbackMessageOf(agentId) ==
    [type |-> "agent", userId |-> 0, agentId |-> agentId,
     content |-> Content(FallbackText, <<>>, ""),
     metadata |-> [NoMetadata EXCEPT !.error = TRUE, !.fallback = TRUE]]

\* callAIProvider's provider table; the mock backends' answers (confidence in percent)
providers ==
    [gpt_4o |-> [template |-> "[OpenAI Response] I understand you're asking about %s. As your %r, ...",
                 confidence |-> 85, tokens |-> 150],
     claude |-> [template |-> "[Claude Response] Thank you for your question about %s. In my role as %r, ...",
                 confidence |-> 88, tokens |-> 120],
     gemini |-> [template |-> "[Gemini Response] I see you're interested in %s. As your %r, ...",
                 confidence |-> 82, tokens |-> 140]]

\* providers[model]: the backend family that serves a model name, "" when there is none
providerOf(model) ==
    CASE model = "gpt-4o" -> "gpt_4o"
      [] model \in {"claude-3-sonnet", "claude-3-opus"} -> "claude"
      [] model \in {"gemini-1.5-pro", "gemini-1.5-flash"} -> "gemini"
      [] OTHER -> ""

\* the agent message generateAgentResponse builds from a provider's response
agentMessageOf(agentId, text) ==
    LET agent == Agent(agentId)
        response == providers[providerOf(agent.model)]
    IN  [type |-> "agent", userId |-> 0, agentId |-> agentId,
         content |-> Content(response.template, text, agent.title),
         metadata |-> [NoMetadata EXCEPT !.model = agent.model,
                                         !.confidence = response.confidence,
                                         !.tokens = response.tokens]]

-----------------------------------------------------------------------------
(* Topics and summary: extractTopics, updateConversationContext, generateConversationSummary *)

\* \w of the regular expression, over the alphabet the inputs use
IsWordChar(c) == c \notin {" ", ",", ".", "-", "!", "?"}

\* the maximal runs of word characters of s, left to right
RECURSIVE WordRuns(_, _, _)
WordRuns(s, i, run) ==
    IF i > Len(s) THEN (IF run = <<>> THEN <<>> ELSE <<run>>)
    ELSE IF IsWordChar(s[i]) THEN WordRuns(s, i + 1, Append(run, s[i]))
    ELSE (IF run = <<>> THEN <<>> ELSE <<run>>) \o WordRuns(s, i + 1, <<>>)

TopicMinLength == 4
TopicsPerMessage == 5

\* message.toLowerCase().match(/\b\w{4,}\b/g) || []  then  .slice(0, 5)
extractTopics(message) ==
    LET runs == WordRuns(toLowerCase(message), 1, <<>>)
        keywords == SelectSeq(runs, LAMBDA w : Len(w) >= TopicMinLength)
    IN  SubSeq(keywords, 1, IF Len(keywords) < TopicsPerMessage THEN Len(keywords) ELSE TopicsPerMessage)

\* [...new Set(xs)]: xs without its later duplicates
DedupeNothing(xs) == xs
RECURSIVE Dedupe(_)
Dedupe(xs) ==
    IF xs = <<>> THEN <<>>
    ELSE LET front == Dedupe(SubSeq(xs, 1, Len(xs) - 1))
             last == xs[Len(xs)]
         IN  IF \E i \in 1..Len(front) : front[i] = last THEN front ELSE Append(front, last)

SummaryEvery == 10
SummaryWindow == 20

\* `Discussion about: ${topics}. ${recentMessages.length} recent messages exchanged.`
generateConversationSummary(conversation) ==
    <<conversation.context.activeTopics,
      IF Len(conversation.messages) < SummaryWindow THEN Len(conversation.messages) ELSE SummaryWindow>>

updateConversationContext(conversation, message) ==
    LET merged == [conversation EXCEPT
                      !.context.activeTopics = Dedupe(@ \o extractTopics(message))]
    IN  IF Len(merged.messages) % SummaryEvery = 0
        THEN [merged EXCEPT !.context.conversationSummary = generateConversationSummary(merged)]
        ELSE merged

-----------------------------------------------------------------------------
(* AgentChatSystem: helpers *)

RECURSIVE SumLen(_)
SumLen(convs) ==
    IF convs = <<>> THEN 0 ELSE Len(convs[1].messages) + SumLen(Tail(convs))

\* the local conversations of the suspended startConversation calls
PendingStarts == {c \in DOMAIN chatCalls : c.op = "start"}
RECURSIVE SumPending(_)
SumPending(calls) ==
    IF calls = {} THEN 0
    ELSE LET c == CHOOSE x \in calls : TRUE
         IN  chatCalls[c] * Len(c.conversation.messages) + SumPending(calls \ {c})

\* messages stored, held by suspended startConversation calls, and replies still to come
MessageLoad == SumLen(conversations) + SumPending(PendingStarts) + BagCardinality(chatCalls)
PendingStartCount == BagCardinality([c \in PendingStarts |-> chatCalls[c]])
CanSuspendChat == BagCardinality(chatCalls) < MaxChatCalls

\* sanitizeConversation: a copy of the conversation and of each message
sanitizeConversation(conversation) ==
    [conversation EXCEPT !.messages = [i \in 1..Len(conversation.messages) |-> conversation.messages[i]]]

\* buildConversationContext over conversation.messages.slice(-10)
ContextWindow == 10
lastMessagesFromStart(messages, n) ==
    IF Len(messages) <= n THEN messages ELSE SubSeq(messages, 1, n)
lastMessages(messages, n) ==
    IF Len(messages) <= n THEN messages ELSE SubSeq(messages, Len(messages) - n + 1, Len(messages))
buildConversationContext(conversation, messages) ==
    [agentRole |-> Agent(conversation.agentId).title,
     conversationSummary |-> conversation.context.conversationSummary,
     recentMessages |-> [i \in 1..Len(messages) |->
                            [type |-> messages[i].type, content |-> messages[i].content]],
     activeTopics |-> conversation.context.activeTopics]

\* what the awaited provider call can do: a model without a provider always throws
ProviderOutcomes(agentId) ==
    IF providerOf(Agent(agentId).model) = "" THEN {"throws"} ELSE {"responds", "throws"}

\* generateAgentResponse after the await: the reply, or the fallback when the call threw
agentResponseOf(agentId, text, outcome) ==
    IF outcome = "responds" THEN agentMessageOf(agentId, text) ELSE fallbackMessageOf(agentId)

\* broadcastToUser: one socket.emit('realtime:update', message) per socket of the user
broadcastToEveryone(userId, message) ==
    {[socket |-> sk, message |-> message] :
        sk \in UNION {activeConnections[u] : u \in DOMAIN activeConnections}}
broadcastToUser(userId, message) ==
    IF userId \in DOMAIN activeConnections
    THEN {[socket |-> sk, message |-> message] : sk \in activeConnections[userId]}
    ELSE {}

-----------------------------------------------------------------------------
(* AgentChatSystem.startConversation *)

\* a variant of newConversation that leaves the greeting out
newConversationUngreeted(userId, agentId) ==
    [userId |-> userId, agentId |-> agentId, agentName |-> Agent(agentId).name,
     lastActivity |-> now,
     messages |-> <<>>,
     context |-> [conversationSummary |-> <<>>, activeTopics |-> <<>>],
     status |-> "active", endedAt |-> NoTime]

newConversation(userId, agentId) ==
    [userId |-> userId, agentId |-> agentId, agentName |-> Agent(agentId).name,
     lastActivity |-> now,
     messages |-> <<greetingMessageOf(agentId)>>,
     context |-> [conversationSummary |-> <<>>, activeTopics |-> <<>>],
     status |-> "active", endedAt |-> NoTime]

\* a variant of storeConversation that announces nothing
storeConversationSilently(conversation) ==
    /\ conversations' = Append(conversations, conversation)
    /\ emitted' = <<>>
    /\ result' = Returned("startConversation", sanitizeConversation(conversation))

\* conversations.set, emit('conversationStarted'), return
storeConversation(conversation) ==
    /\ conversations' = Append(conversations, conversation)
    /\ emitted' = <<[event |-> "conversationStarted", conversationId |-> Len(conversations) + 1,
                     userId |-> conversation.userId, agentId |-> conversation.agentId]>>
    /\ result' = Returned("startConversation", sanitizeConversation(conversation))

\* startConversation, to its end without an initial message, else up to the provider await
StartConversationCall(userId, agentId, initialMessage) ==
    /\ delivered' = {}
    /\ IF canAccessAgent(userId, agentId) = "throws"
       THEN /\ result' = Threw("startConversation", TypeErrorMessage)
            /\ emitted' = <<>>
            /\ UNCHANGED <<conversations, chatCalls>>
       ELSE IF canAccessAgent(userId, agentId) = "false"
       THEN /\ result' = Threw("startConversation", "Access denied to this agent")
            /\ emitted' = <<>>
            /\ UNCHANGED <<conversations, chatCalls>>
       ELSE IF ~AgentTruthy(agentId)
       THEN /\ result' = Threw("startConversation", "Agent not found")
            /\ emitted' = <<>>
            /\ UNCHANGED <<conversations, chatCalls>>
       ELSE IF initialMessage = <<>>
       THEN /\ Len(conversations) + PendingStartCount < MaxConvs
            /\ MessageLoad + 1 <= MaxMsgs
            /\ storeConversation(newConversation(userId, agentId))
            /\ UNCHANGED chatCalls
       ELSE /\ Len(conversations) + PendingStartCount < MaxConvs
            /\ MessageLoad + 3 <= MaxMsgs
            /\ CanSuspendChat
            /\ LET created == newConversation(userId, agentId)
                   conversation == [created EXCEPT
                       !.messages = Append(@, userMessageOf(userId, initialMessage))]
               IN  chatCalls' = chatCalls (+) SetToBag({
                       [op |-> "start", conversation |-> conversation, message |-> initialMessage,
                        context |-> buildConversationContext(conversation,
                                        lastMessages(conversation.messages, ContextWindow))]})
            /\ emitted' = <<>>
            /\ result' = NoResult
            /\ UNCHANGED conversations
    /\ UNCHANGED <<now, authVars, connVars>>

\* a variant of StartConversationResume that stores the conversation without the reply
StartConversationResumeUnanswered(call, outcome) ==
    /\ BagIn(call, chatCalls) /\ call.op = "start"
    /\ outcome \in ProviderOutcomes(call.conversation.agentId)
    /\ chatCalls' = chatCalls (-) SetToBag({call})
    /\ storeConversation(call.conversation)
    /\ delivered' = {}
    /\ UNCHANGED <<now, authVars, connVars>>

\* startConversation after the await: the reply is pushed, the conversation stored
StartConversationResume(call, outcome) ==
    /\ BagIn(call, chatCalls) /\ call.op = "start"
    /\ outcome \in ProviderOutcomes(call.conversation.agentId)
    /\ chatCalls' = chatCalls (-) SetToBag({call})
    /\ storeConversation([call.conversation EXCEPT
           !.messages = Append(@, agentResponseOf(call.conversation.agentId, call.message, outcome))])
    /\ delivered' = {}
    /\ UNCHANGED <<now, authVars, connVars>>

-----------------------------------------------------------------------------
(* AgentChatSystem.sendMessage *)

\* a variant of sendMessageError that leaves the status check out
sendMessageErrorAnyStatus(userId, conversationId) ==
    IF conversationId \notin DOMAIN conversations THEN "Conversation not found"
    ELSE IF conversations[conversationId].userId # userId THEN "Access denied to this conversation"
    ELSE ""

\* a variant of sendMessageError that leaves the owner check out
sendMessageErrorAnyUser(userId, conversationId) ==
    IF conversationId \notin DOMAIN conversations THEN "Conversation not found"
    ELSE IF conversations[conversationId].status # "active" THEN "Conversation is not active"
    ELSE ""

\* the three checks sendMessage opens with: the message of the error thrown, "" when none
sendMessageError(userId, conversationId) ==
    IF conversationId \notin DOMAIN conversations THEN "Conversation not found"
    ELSE IF conversations[conversationId].userId # userId THEN "Access denied to this conversation"
    ELSE IF conversations[conversationId].status # "active" THEN "Conversation is not active"
    ELSE ""

\* sendMessage past its checks: the user message is pushed and generateAgentResponse
\* builds the context from the last 10 messages and awaits the provider
sendMessageDispatch(userId, conversationId, message) ==
    /\ conversations' = [conversations EXCEPT
           ![conversationId].messages = Append(@, userMessageOf(userId, message))]
    /\ chatCalls' = chatCalls (+) SetToBag({
           [op |-> "send", userId |-> userId, conversationId |-> conversationId,
            message |-> message,
            context |-> buildConversationContext(conversations'[conversationId],
                            lastMessages(conversations'[conversationId].messages, ContextWindow))]})
    /\ result' = NoResult

\* sendMessage, up to the provider await: the checks, the user message pushed
SendMessageCall(userId, conversationId, message) ==
    /\ emitted' = <<>> /\ delivered' = {}
    /\ IF sendMessageError(userId, conversationId) # ""
       THEN /\ result' = Threw("sendMessage", sendMessageError(userId, conversationId))
            /\ UNCHANGED <<conversations, chatCalls>>
       ELSE /\ MessageLoad + 2 <= MaxMsgs
            /\ CanSuspendChat
            /\ sendMessageDispatch(userId, conversationId, message)
    /\ UNCHANGED <<now, authVars, connVars>>

\* the conversation after the reply is pushed, last-activity stamped and the context updated
withReplyInFront(conversation, agentResponse, message) ==
    updateConversationContext(
        [conversation EXCEPT !.messages = <<agentResponse>> \o @, !.lastActivity = now],
        message)
withReplyBeforeLast(conversation, agentResponse, message) ==
    updateConversationContext(
        [conversation EXCEPT
            !.messages = SubSeq(@, 1, Len(@) - 1) \o <<agentResponse, @[Len(@)]>>,
            !.lastActivity = now],
        message)
withReply(conversation, agentResponse, message) ==
    updateConversationContext(
        [conversation EXCEPT !.messages = Append(@, agentResponse), !.lastActivity = now],
        message)

\* sendMessage after the await: push, stamp, update the context, emit, broadcast, return
SendMessageResume(call, outcome) ==
    /\ BagIn(call, chatCalls) /\ call.op = "send"
    /\ outcome \in ProviderOutcomes(conversations[call.conversationId].agentId)
    /\ LET conversation == conversations[call.conversationId]
           agentResponse == agentResponseOf(conversation.agentId, call.message, outcome)
       IN  /\ conversations' = [conversations EXCEPT
                  ![call.conversationId] = withReply(conversation, agentResponse, call.message)]
           /\ emitted' = <<[event |-> "messageSent", conversationId |-> call.conversationId,
                            userId |-> call.userId,
                            message |-> userMessageOf(call.userId, call.message),
                            response |-> agentResponse]>>
           /\ delivered' = broadcastToUser(call.userId,
                               [type |-> "newMessage", conversationId |-> call.conversationId,
                                message |-> agentResponse])
           /\ result' = Returned("sendMessage",
                            [message |-> agentResponse, conversationId |-> call.conversationId])
    /\ chatCalls' = chatCalls (-) SetToBag({call})
    /\ UNCHANGED <<now, authVars, connVars>>

-----------------------------------------------------------------------------
(* AgentChatSystem.getConversation, getUserConversations, endConversation *)

getConversation(userId, conversationId) ==
    /\ emitted' = <<>> /\ delivered' = {}
    /\ IF conversationId \notin DOMAIN conversations
       THEN result' = Threw("getConversation", "Conversation not found")
       ELSE IF conversations[conversationId].userId # userId
       THEN result' = Threw("getConversation", "Access denied to this conversation")
       ELSE result' = Returned("getConversation", sanitizeConversation(conversations[conversationId]))
    /\ UNCHANGED <<now, authVars, chatVars, connVars>>

\* the ids of the user's conversations: filter, then a stable sort, latest activity first
sortedConversationsOf(userId) ==
    LET mine == {c \in DOMAIN conversations : conversations[c].userId = userId}
        before(a, b) == \/ conversations[a].lastActivity > conversations[b].lastActivity
                        \/ conversations[a].lastActivity = conversations[b].lastActivity /\ a < b
        rank(c) == Cardinality({d \in mine : before(d, c)}) + 1
    IN  [i \in 1..Cardinality(mine) |-> CHOOSE c \in mine : rank(c) = i]

\* Array.prototype.slice(start, end) for 0 <= start <= end
slice(xs, start, end) ==
    LET stop == IF end < Len(xs) THEN end ELSE Len(xs)
    IN  IF start >= stop THEN <<>> ELSE SubSeq(xs, start + 1, stop)

\* the page: .filter().sort().slice(offset, offset + limit)
pageOf(userId, limit, offset) == slice(sortedConversationsOf(userId), offset, offset + limit)

\* the `total` field of the answer
totalOf(userId, limit, offset) == Len(pageOf(userId, limit, offset))

getUserConversationsValue(userId, limit, offset) ==
    [conversations |-> [i \in 1..Len(pageOf(userId, limit, offset)) |->
                           sanitizeConversation(conversations[pageOf(userId, limit, offset)[i]])],
     ids |-> pageOf(userId, limit, offset),
     total |-> totalOf(userId, limit, offset)]

getUserConversations(userId, limit, offset) ==
    /\ emitted' = <<>> /\ delivered' = {}
    /\ result' = Returned("getUserConversations", getUserConversationsValue(userId, limit, offset))
    /\ UNCHANGED <<now, authVars, chatVars, connVars>>

\* a variant of endConversation that ends every conversation of the user
endConversationOfAll(userId, conversationId) ==
    /\ delivered' = {}
    /\ IF conversationId \notin DOMAIN conversations
       THEN /\ result' = Threw("endConversation", "Conversation not found")
            /\ emitted' = <<>>
            /\ UNCHANGED conversations
       ELSE IF conversations[conversationId].userId # userId
       THEN /\ result' = Threw("endConversation", "Access denied to this conversation")
            /\ emitted' = <<>>
            /\ UNCHANGED conversations
       ELSE /\ conversations' = [c \in DOMAIN conversations |->
                                    IF conversations[c].userId = userId
                                    THEN [conversations[c] EXCEPT !.status = "ended", !.endedAt = now]
                                    ELSE conversations[c]]
            /\ emitted' = <<[event |-> "conversationEnded", conversationId |-> conversationId,
                             userId |-> userId]>>
            /\ result' = Returned("endConversation", "Conversation ended successfully")
    /\ UNCHANGED <<now, authVars, chatCalls, connVars>>

endConversation(userId, conversationId) ==
    /\ delivered' = {}
    /\ IF conversationId \notin DOMAIN conversations
       THEN /\ result' = Threw("endConversation", "Conversation not found")
            /\ emitted' = <<>>
            /\ UNCHANGED conversations
       ELSE IF conversations[conversationId].userId # userId
       THEN /\ result' = Threw("endConversation", "Access denied to this conversation")
            /\ emitted' = <<>>
            /\ UNCHANGED conversations
       ELSE /\ conversations' = [conversations EXCEPT ![conversationId].status = "ended",
                                                      ![conversationId].endedAt = now]
            /\ emitted' = <<[event |-> "conversationEnded", conversationId |-> conversationId,
                             userId |-> userId]>>
            /\ result' = Returned("endConversation", "Conversation ended successfully")
    /\ UNCHANGED <<now, authVars, chatCalls, connVars>>

-----------------------------------------------------------------------------
(* AgentChatSystem.registerConnection and the 'disconnect' listener it installs *)

registerConnection(userId, socket) ==
    /\ activeConnections' =
           [u \in DOMAIN activeConnections \cup {userId} |->
               IF u = userId
               THEN (IF u \in DOMAIN activeConnections THEN activeConnections[u] ELSE {}) \cup {socket}
               ELSE activeConnections[u]]
    /\ listeners' = listeners \cup {<<userId, socket>>}
    /\ emitted' = <<>> /\ delivered' = {}
    /\ result' = NoResult
    /\ UNCHANGED <<now, authVars, chatVars, closed>>

\* the socket closes: every listener installed on it runs
Disconnect(socket) ==
    /\ socket \notin closed
    /\ closed' = closed \cup {socket}
    /\ LET left == [u \in DOMAIN activeConnections |->
                       IF <<u, socket>> \in listeners
                       THEN activeConnections[u] \ {socket} ELSE activeConnections[u]]
       IN  activeConnections' =
               [u \in {v \in DOMAIN left : ~(<<v, socket>> \in listeners /\ left[v] = {})} |-> left[u]]
    /\ listeners' = {l \in listeners : l[2] # socket}
    /\ emitted' = <<>> /\ delivered' = {}
    /\ result' = NoResult
    /\ UNCHANGED <<now, authVars, chatVars>>

-----------------------------------------------------------------------------
(* Inputs of the identity store *)

EmailA == <<"a", "@", "x">>
EmailAUpper == <<"A", "@", "x">>
EmailMalformed == <<"b">>
Passwords == {"pw1", "123"}

RegisterInputs ==
    { [email |-> EmailA, password |-> "pw1", firstName |-> "Ann", lastName |-> "Lee",
       role |-> UndefString, department |-> "Ops"],
      [email |-> EmailAUpper, password |-> "pw1", firstName |-> "Ann", lastName |-> "Lee",
       role |-> "super_admin", department |-> "Ops"],
      [email |-> EmailMalformed, password |-> "123", firstName |-> "Bob", lastName |-> "Ray",
       role |-> "constructor", department |-> "Ops"],
      [email |-> EmailMalformed, password |-> "pw1", firstName |-> "Bob", lastName |-> "Ray",
       role |-> "intern", department |-> "Ops"],
      [email |-> EmailA, password |-> "pw1", firstName |-> "", lastName |-> "Lee",
       role |-> UndefString, department |-> "Ops"] }

LoginEmails == {EmailAUpper, EmailMalformed}
\* a request body that carries a whitelisted key and keys that are not whitelisted
ProfileUpdates ==
    { [department |-> "R&D", role |-> "super_admin", permissions |-> {"*"},
       agentAccess |-> {"all_agents"}, spendingLimit |-> 1000000] }
RoleInputs == {"executive", "constructor", "intern"}
SessionIdInputs == 1..(MaxSessions + 1)

-----------------------------------------------------------------------------
(* The identity store on its own, from construction *)

Init ==
    /\ now = 0
    /\ users = <<>>
    /\ sessions = <<>>
    /\ sessionIds = 0
    /\ issuedTokens = {}
    /\ authCalls = EmptyBag
    /\ conversations = <<>>
    /\ chatCalls = EmptyBag
    /\ activeConnections = <<>>
    /\ listeners = {}
    /\ closed = {}
    /\ emitted = <<>>
    /\ delivered = {}
    /\ result = NoResult

Register == \E d \in RegisterInputs : RegisterCall(d)
RegisterDone == \E c \in DOMAIN authCalls : RegisterResume(c)
Login == \E e \in LoginEmails, p \in Passwords : LoginCall(e, p)
LoginDone == \E c \in DOMAIN authCalls : LoginResume(c)
Logout == \E s \in SessionIdInputs : logout(s)
VerifyToken == \E t \in issuedTokens \cup {ForgedToken} : verifyToken(t)
UpdateProfile == \E u \in UserIds, up \in ProfileUpdates : updateProfile(u, up)
ChangePassword == \E u \in UserIds, p \in Passwords : ChangePasswordCall(u, p, "123")
ChangePasswordStep == \E c \in DOMAIN authCalls : ChangePasswordCompared(c)
ChangePasswordDone == \E c \in DOMAIN authCalls : ChangePasswordResume(c)
UpdateRole == \E a \in UserIds, t \in UserIds, r \in RoleInputs : updateUserRole(a, t, r)
Deactivate == \E a \in UserIds, t \in UserIds : deactivateUser(a, t)
ListUsers == \E a \in UserIds : getAllUsers(a)
Sweep == cleanupExpiredSessions

\* accounts, logins, sessions and tokens as the clock advances
NextAuth ==
    \/ Register \/ RegisterDone
    \/ Login \/ LoginDone
    \/ Logout
    \/ VerifyToken
    \/ Deactivate
    \/ Sweep
    \/ Tick

SpecAuth == Init /\ [][NextAuth]_vars

\* a token signed by this server for a user id the user store does not hold
OrphanToken ==
    [userId |-> MaxUsers + 1, email |-> EmailA, role |-> "employee",
     permissions |-> roles["employee"].permissions, exp |-> MaxTime + TokenTTL + 1, signed |-> TRUE]
TokenInputs == issuedTokens \cup {ForgedToken, OrphanToken}
VerifyAnyToken == \E t \in TokenInputs : verifyToken(t)

\* tokens presented while roles change and users are deactivated
NextTokens ==
    \/ Register \/ RegisterDone
    \/ Login \/ LoginDone
    \/ VerifyAnyToken
    \/ UpdateRole
    \/ Deactivate

SpecTokens == Init /\ [][NextTokens]_vars

\* accounts and every operation that writes a user record
NextRoles ==
    \/ Register \/ RegisterDone
    \/ UpdateProfile
    \/ ChangePassword \/ ChangePasswordStep \/ ChangePasswordDone
    \/ UpdateRole
    \/ Deactivate

SpecRoles == Init /\ [][NextRoles]_vars

-----------------------------------------------------------------------------
(* The conversation engine over a populated identity store *)

\* The server registers its default administrator while it is constructed
\* (createDefaultAdmin); one more user has registered with the default role.
DefaultAdmin ==
    [email |-> <<"a", "d", "m", "i", "n", "@", "a", "g", "e", "n", "t", "i", "c", "-",
                 "b", "o", "a", "r", "d", "r", "o", "o", "m", ".", "c", "o", "m">>, password |-> "admin123", firstName |-> "System",
     lastName |-> "Administrator", role |-> "super_admin", department |-> "System Administration"]
EmployeeAnn ==
    [email |-> EmailA, password |-> "pw1", firstName |-> "Ann", lastName |-> "Lee",
     role |-> "employee", department |-> "Ops"]

InitChat ==
    /\ now = 0
    /\ users = <<newUser(DefaultAdmin, BcryptHash(DefaultAdmin.password)),
                 newUser(EmployeeAnn, BcryptHash(EmployeeAnn.password))>>
    /\ sessions = <<>>
    /\ sessionIds = 0
    /\ issuedTokens = {}
    /\ authCalls = EmptyBag
    /\ conversations = <<>>
    /\ chatCalls = EmptyBag
    /\ activeConnections = <<>>
    /\ listeners = {}
    /\ closed = {}
    /\ emitted = <<>>
    /\ delivered = {}
    /\ result = NoResult

\* "go plans", and the empty string for a start without a first message
TextGoPlans == <<"g", "o", " ", "p", "l", "a", "n", "s">>
InitialMessages == {<<>>, TextGoPlans}
MessageTexts == {TextGoPlans}
AgentInputs == {"company_mascot", "ceo"}
AnyAgentInputs == {"company_mascot", "ceo", "constructor", "overlord"}
ChatUserIds == 1..3
ConversationIds == 1..(MaxConvs + 1)
Sockets == {"s1", "s2"}
ChatRoleInputs == {"executive", "constructor"}

StartConversation ==
    \E u \in ChatUserIds, a \in AgentInputs, m \in InitialMessages : StartConversationCall(u, a, m)
StartConversationDone ==
    \E c \in DOMAIN chatCalls, o \in {"responds", "throws"} : StartConversationResume(c, o)
SendMessage ==
    \E u \in ChatUserIds, c \in ConversationIds, m \in MessageTexts : SendMessageCall(u, c, m)
SendMessageDone ==
    \E c \in DOMAIN chatCalls, o \in {"responds", "throws"} : SendMessageResume(c, o)
GetConversation == \E u \in ChatUserIds, c \in ConversationIds : getConversation(u, c)
ListConversations ==
    \E u \in ChatUserIds, l \in 1..MaxLimit, o \in 0..1 : getUserConversations(u, l, o)
EndConversation == \E u \in ChatUserIds, c \in ConversationIds : endConversation(u, c)

\* conversations from start to end, and read back
NextChat ==
    \/ StartConversation \/ StartConversationDone
    \/ SendMessage \/ SendMessageDone
    \/ GetConversation
    \/ ListConversations
    \/ EndConversation

SpecChat == InitChat /\ [][NextChat]_vars

\* any agent id may be asked for, and the administrator changes roles
StartAnyAgent ==
    \E u \in ChatUserIds, a \in AnyAgentInputs, m \in InitialMessages : StartConversationCall(u, a, m)
ChangeRole == \E t \in UserIds, r \in ChatRoleInputs : updateUserRole(1, t, r)

\* conversations started and written to while roles change
NextAccess ==
    \/ StartAnyAgent \/ StartConversationDone
    \/ SendMessage \/ SendMessageDone
    \/ ChangeRole

SpecAccess == InitChat /\ [][NextAccess]_vars

\* registrations whose email is no address or whose password is the short '123',
\* with the default role
IllFormedInputs ==
    { [email |-> EmailMalformed, password |-> "pw1", firstName |-> "Bob", lastName |-> "Ray",
       role |-> UndefString, department |-> "Ops"],
      [email |-> EmailA, password |-> "123", firstName |-> "Ann", lastName |-> "Lee",
       role |-> UndefString, department |-> "Ops"] }
RegisterIllFormed == \E d \in IllFormedInputs : RegisterCall(d)

\* registrations, well-formed and not, and the logins that follow
NextRegister ==
    \/ Register \/ RegisterIllFormed \/ RegisterDone
    \/ Login \/ LoginDone

SpecRegister == Init /\ [][NextRegister]_vars

\* every operation that returns a view of a user, while passwords change
NextViews ==
    \/ Register \/ RegisterDone
    \/ Login \/ LoginDone
    \/ VerifyToken
    \/ UpdateProfile
    \/ ChangePassword \/ ChangePasswordStep \/ ChangePasswordDone
    \/ ChangeRole
    \/ ListUsers

SpecViews == Init /\ [][NextViews]_vars

\* the mascot's conversations of the two users, without a first message
StartGreeting == \E u \in UserIds : StartConversationCall(u, "company_mascot", <<>>)
Connect == \E u \in UserIds, sk \in Sockets : sk \notin closed /\ registerConnection(u, sk)
Close == \E sk \in Sockets : Disconnect(sk)

\* conversations while sockets come and go
NextFanout ==
    \/ StartGreeting
    \/ SendMessage \/ SendMessageDone
    \/ EndConversation
    \/ Connect \/ Close

SpecFanout == InitChat /\ [][NextFanout]_vars

\* the 'authenticate' handler of a socket resumes from its await after the socket
\* closed, and registers it
ConnectLate == \E u \in UserIds, sk \in Sockets : sk \in closed /\ registerConnection(u, sk)

\* the connection registry while sockets register and close, and the broadcasts
\* of sendMessage over it
NextRegistry ==
    \/ StartGreeting
    \/ SendMessage \/ SendMessageDone
    \/ Connect
    \/ Close
    \/ ConnectLate

SpecRegistry == InitChat /\ [][NextRegistry]_vars

\* 'Aaaa bbbb,cccc dddd eeee ffff go': six words of four letters and a short one
TextSixTopics ==
    <<"A", "a", "a", "a", " ", "b", "b", "b", "b", ",", "c", "c", "c", "c", " ",
      "d", "d", "d", "d", " ", "e", "e", "e", "e", " ", "f", "f", "f", "f", " ", "g", "o">>
\* 'ffff AAAA now'
TextTwoTopics == <<"f", "f", "f", "f", " ", "A", "A", "A", "A", " ", "n", "o", "w">>
TopicTexts == {TextSixTopics, TextTwoTopics}
SendTopical ==
    \E u \in UserIds, c \in DOMAIN conversations, m \in TopicTexts : SendMessageCall(u, c, m)

\* messages full of topics, sent one after another and overlapping
NextTopics ==
    \/ StartGreeting
    \/ SendTopical
    \/ SendMessageDone

SpecTopics == InitChat /\ [][NextTopics]_vars

\* a sendMessage, up to the provider await, on a conversation on which no call is
\* suspended; calls on other conversations may be
SendMessageBeside(userId, conversationId, message) ==
    /\ sendMessageError(userId, conversationId) = ""
    /\ \A call \in DOMAIN chatCalls : call.op = "send" /\ call.conversationId # conversationId
    /\ CanSuspendChat
    /\ SumLen(conversations) + 2 <= MaxPairMsgs
    /\ emitted' = <<>> /\ delivered' = {}
    /\ sendMessageDispatch(userId, conversationId, message)
    /\ UNCHANGED <<now, authVars, connVars>>

SendBeside ==
    \E u \in UserIds, c \in DOMAIN conversations, m \in MessageTexts :
        SendMessageBeside(u, c, m)

\* two conversations written to and ended side by side
NextPair ==
    \/ StartGreeting
    \/ SendBeside
    \/ SendMessageDone
    \/ EndConversation

SpecPair == InitChat /\ [][NextPair]_vars

\* a sendMessage made while no other call is suspended, up to the provider await
SendMessageAlone(userId, conversationId, message) ==
    /\ sendMessageError(userId, conversationId) = ""
    /\ chatCalls = EmptyBag
    /\ SumLen(conversations) + 2 <= MaxTurnMsgs
    /\ emitted' = <<>> /\ delivered' = {}
    /\ sendMessageDispatch(userId, conversationId, message)
    /\ UNCHANGED <<now, authVars, connVars>>

SendInTurn ==
    \E u \in UserIds, c \in DOMAIN conversations, m \in MessageTexts :
        SendMessageAlone(u, c, m)

\* long conversations, one sendMessage after another
NextTurns ==
    \/ StartGreeting
    \/ SendInTurn
    \/ SendMessageDone

SpecTurns == InitChat /\ [][NextTurns]_vars

\* the provider call of a suspended sendMessage never settles: `await provider()` has
\* no time limit, so the call stays suspended and its continuation never runs
ProviderStalls(call) ==
    /\ BagIn(call, chatCalls) /\ call.op = "send"
    /\ chatCalls' = (chatCalls (-) SetToBag({call}))
                        (+) SetToBag({[call EXCEPT !.op = "send, provider silent"]})
    /\ emitted' = <<>> /\ delivered' = {}
    /\ result' = NoResult
    /\ UNCHANGED <<now, authVars, conversations, connVars>>

ProviderSilent == \E c \in DOMAIN chatCalls : ProviderStalls(c)

\* messages sent to providers that answer, fail or stay silent
NextLive ==
    \/ StartGreeting
    \/ SendMessage \/ SendMessageDone
    \/ ProviderSilent

\* the event loop runs the continuation of every provider call that has settled
SpecLive == InitChat /\ [][NextLive]_vars /\ WF_vars(SendMessageDone)

-----------------------------------------------------------------------------
(* Properties of the conversation engine *)

\* C1: a sendMessage by the owner of an ended conversation throws 'Conversation is
\* not active'; the conversations, so the message count of the ended one, and the
\* suspended calls stay as they were, no lifecycle event is emitted and nothing is
\* sent to any socket.
C1_EndedRejectsSend ==
    [][\A u \in ChatUserIds, c \in ConversationIds, m \in MessageTexts :
          (/\ c \in DOMAIN conversations
           /\ conversations[c].status = "ended"
           /\ conversations[c].userId = u
           /\ SendMessageCall(u, c, m))
          => /\ result'.op = "sendMessage" /\ result'.outcome = "threw"
             /\ result'.error = "Conversation is not active"
             /\ Len(conversations'[c].messages) = Len(conversations[c].messages)
             /\ conversations' = conversations
             /\ chatCalls' = chatCalls
             /\ emitted' = <<>> /\ delivered' = {}]_vars

\* a send was refused on an ended conversation that holds a user message and its
\* reply, while a socket of the owner is connected
C1_Witness ==
    /\ result.op = "sendMessage" /\ result.error = "Conversation is not active"
    /\ \E c \in DOMAIN conversations :
          /\ conversations[c].status = "ended"
          /\ Len(conversations[c].messages) >= 3
          /\ conversations[c].userId \in DOMAIN activeConnections

\* C2: once a conversation is ended, no step changes its status or its message
\* list; a reply that arrives after endConversation is not appended.
C2_EndedIsFrozen ==
    [][\A c \in DOMAIN conversations :
          conversations[c].status = "ended"
          => /\ conversations'[c].status = "ended"
             /\ conversations'[c].messages = conversations[c].messages]_vars

\* C3: every stored conversation holds at least one message, and the first one is
\* the greeting of the conversation's agent, written by the agent, whether or not
\* startConversation was given an initial message.
C3_GreetingFirst ==
    \A c \in DOMAIN conversations :
        LET conversation == conversations[c]
        IN  /\ Len(conversation.messages) >= 1
            /\ conversation.messages[1].type = "agent"
            /\ conversation.messages[1].agentId = conversation.agentId
            /\ conversation.messages[1].metadata.messageType = "greeting"
            /\ conversation.messages[1].content =
                   Content(Agent(conversation.agentId).greeting, <<>>, "")
            /\ \A i \in 1..Len(conversation.messages) :
                   conversation.messages[i].type = "user" => i > 1

\* a conversation of the CEO agent started with an initial message: greeting, user
\* message, reply
C3_Witness ==
    \E c \in DOMAIN conversations :
        /\ conversations[c].agentId = "ceo"
        /\ Len(conversations[c].messages) >= 3
        /\ conversations[c].messages[2].type = "user"

\* C4: when the provider call of a sendMessage on an active conversation throws,
\* the call returns; exactly one message is appended, after the user message,
\* written by the agent, with the fixed fallback text and the error and fallback
\* flags set, and it is the message the call returns.
C4_FallbackOnFailure ==
    [][\A call \in DOMAIN chatCalls :
          (/\ call.op = "send"
           /\ conversations[call.conversationId].status = "active"
           /\ SendMessageResume(call, "throws"))
          => LET before == conversations[call.conversationId].messages
                 after == conversations'[call.conversationId].messages
             IN  /\ Len(after) = Len(before) + 1
                 /\ SubSeq(after, 1, Len(before)) = before
                 /\ \E i \in 1..Len(before) :
                       before[i] = userMessageOf(call.userId, call.message)
                 /\ after[Len(after)].type = "agent"
                 /\ after[Len(after)].content = Content(FallbackText, <<>>, "")
                 /\ after[Len(after)].metadata.error
                 /\ after[Len(after)].metadata.fallback
                 /\ result'.op = "sendMessage" /\ result'.outcome = "returned"
                 /\ result'.value.message = after[Len(after)]]_vars

\* a sendMessage has returned the fallback message
C4_Witness ==
    /\ result.op = "sendMessage" /\ result.outcome = "returned"
    /\ result.value.message.metadata.fallback
    /\ \E c \in DOMAIN conversations :
          /\ Len(conversations[c].messages) >= 3
          /\ conversations[c].messages[Len(conversations[c].messages)] = result.value.message

\* C5: getUserConversations reports as total the number of all conversations of
\* the user, whatever the page, and the page holds at most limit conversations.
C5_TotalIsFullCount ==
    [][\A u \in ChatUserIds, l \in 1..MaxLimit, o \in 0..1 :
          getUserConversations(u, l, o)
          => /\ result'.value.total =
                   Cardinality({c \in DOMAIN conversations : conversations[c].userId = u})
             /\ Len(result'.value.conversations) <= l]_vars

-----------------------------------------------------------------------------
(* Properties of the identity store *)

\* C6: no two stored users have the same lowercased email, also when register
\* calls for one email, in any letter case, run concurrently.
C6_EmailUnique ==
    \A u \in DOMAIN users, v \in DOMAIN users :
        u # v => toLowerCase(users[u].email) # toLowerCase(users[v].email)

\* C7: a deactivateUser that returns leaves no session of the target, leaves the
\* sessions of every other user as they were, and from then on verifyToken of a
\* token issued to the deactivated user does not succeed.
C7_DeactivateEndsSessions ==
    [][/\ \A a \in UserIds, t \in UserIds :
             (deactivateUser(a, t) /\ result'.outcome = "returned")
             => /\ \A s \in DOMAIN sessions' : sessions'[s].userId # t
                /\ \A s \in DOMAIN sessions :
                      sessions[s].userId # t
                      => s \in DOMAIN sessions' /\ sessions'[s] = sessions[s]
       /\ \A token \in issuedTokens :
             (/\ Exists(token.userId)
              /\ ~users[token.userId].isActive
              /\ verifyToken(token))
             => ~result'.value.success]_vars

\* verifyToken has refused the unexpired token of a deactivated user while a session
\* of another user is still stored
C7_Witness ==
    /\ result.op = "verifyToken" /\ ~result.value.success
    /\ result.value.error = "User not found or inactive"
    /\ \E token \in issuedTokens :
          /\ JwtValid(token)
          /\ ~users[token.userId].isActive
          /\ \A s \in DOMAIN sessions : sessions[s].userId # token.userId
          /\ \E s \in DOMAIN sessions : sessions[s].userId # token.userId

\* C8: after every step each user's permissions, agent access and spending limit
\* are those of the role named on the record; a step that changes a user's role or
\* one of the three is an updateUserRole of that user to the role the record then
\* names.
C8_GrantsFollowRole ==
    [][/\ \A u \in DOMAIN users' :
             /\ users'[u].permissions = RoleGrants(users'[u].role).permissions
             /\ users'[u].agentAccess = RoleGrants(users'[u].role).agentAccess
             /\ users'[u].spendingLimit = RoleGrants(users'[u].role).spendingLimit
       /\ \A u \in DOMAIN users :
             (\/ users'[u].role # users[u].role
              \/ users'[u].permissions # users[u].permissions
              \/ users'[u].agentAccess # users[u].agentAccess
              \/ users'[u].spendingLimit # users[u].spendingLimit)
             => \E a \in UserIds : updateUserRole(a, u, users'[u].role)]_vars

\* a user whose role was changed to executive, whose profile was updated, whose
\* password was changed and who was then deactivated
C8_Witness ==
    \E u \in DOMAIN users :
        /\ users[u].role = "executive"
        /\ users[u].spendingLimit = roles["executive"].spendingLimit
        /\ users[u].department = "R&D"
        /\ users[u].password = BcryptHash("123")
        /\ users[u].email # EmailMalformed
        /\ ~users[u].isActive

\* C11: a login that fails throws 'Invalid credentials' and nothing else, whether
\* the email matches no user, a deactivated user, or an active user with a wrong
\* password: the caller cannot tell the three cases apart.
C11_LoginFailuresAlike ==
    (result.op = "login" /\ result.outcome = "threw") => result.error = "Invalid credentials"

\* C12: verifyToken does not succeed for a token once no session issued with it is
\* stored any more, in particular after logout has removed its session.
C12_RevokedTokenRefused ==
    [][\A token \in issuedTokens :
          (/\ \A s \in DOMAIN sessions : sessions[s].token # token
           /\ verifyToken(token))
          => ~result'.value.success]_vars

\* C13: a verifyToken that succeeds returns the user record as it is now, without
\* the password, with the role and grants the record now names, next to the
\* claims of the token as they were signed; it does not succeed when the token's
\* user does not exist or is not active.
C13_VerifyReturnsCurrentUser ==
    [][\A token \in TokenInputs :
          verifyToken(token)
          => IF JwtValid(token) /\ Exists(token.userId) /\ users[token.userId].isActive
             THEN /\ result'.value.success
                  /\ result'.value.decoded = token
                  /\ result'.value.user.role = users[token.userId].role
                  /\ result'.value.user.permissions = users[token.userId].permissions
                  /\ result'.value.user.agentAccess = users[token.userId].agentAccess
                  /\ result'.value.user.spendingLimit = users[token.userId].spendingLimit
                  /\ "password" \notin DOMAIN result'.value.user
                  /\ \A f \in DOMAIN result'.value.user :
                        result'.value.user[f] = users[token.userId][f]
             ELSE ~result'.value.success]_vars

\* verifyToken has returned a user whose role is executive for a token signed
\* for another role
C13_Witness ==
    /\ result.op = "verifyToken" /\ result.value.success
    /\ result.value.user.role = "executive"
    /\ result.value.user.permissions = roles["executive"].permissions
    /\ result.value.decoded.role # "executive"

-----------------------------------------------------------------------------
(* Properties of the conversation engine, continued *)

\* C9: a startConversation by a user who cannot access the agent throws 'Access
\* denied to this agent', stores no conversation, suspends nothing and emits no
\* lifecycle event.
C9_StartOnlyWithAccess ==
    [][\A u \in ChatUserIds, a \in AnyAgentInputs, m \in InitialMessages :
          (canAccessAgent(u, a) # "true" /\ StartConversationCall(u, a, m))
          => /\ result'.op = "startConversation" /\ result'.outcome = "threw"
             /\ result'.error = "Access denied to this agent"
             /\ conversations' = conversations
             /\ chatCalls' = chatCalls
             /\ emitted' = <<>>]_vars

\* C10: sendMessage, endConversation and getConversation by a user who does not own
\* the conversation throw 'Access denied to this conversation', return nothing of
\* it and change nothing, also when it is ended; the page getUserConversations
\* returns to that user does not hold it.
C10_OwnerIsolation ==
    [][/\ \A u \in ChatUserIds, c \in DOMAIN conversations :
             conversations[c].userId # u
             => LET refused == /\ result'.outcome = "threw"
                               /\ result'.error = "Access denied to this conversation"
                               /\ result'.value = <<>>
                               /\ conversations' = conversations
                               /\ chatCalls' = chatCalls
                               /\ emitted' = <<>> /\ delivered' = {}
                IN  /\ \A m \in MessageTexts : SendMessageCall(u, c, m) => refused
                    /\ endConversation(u, c) => refused
                    /\ getConversation(u, c) => refused
       /\ result'.op = "getUserConversations"
          => \A u \in ChatUserIds, l \in 1..MaxLimit, o \in 0..1 :
                getUserConversations(u, l, o)
                => \A i \in 1..Len(result'.value.ids) :
                      conversations[result'.value.ids[i]].userId = u]_vars

\* endConversation was refused to a user while an ended conversation of another
\* user, holding a reply, is stored
C10_Witness ==
    /\ result.op = "endConversation" /\ result.error = "Access denied to this conversation"
    /\ \E c \in DOMAIN conversations :
          /\ conversations[c].status = "ended"
          /\ Len(conversations[c].messages) >= 3

\* C24: the session sweep removes the sessions whose expiry is strictly earlier
\* than now and no other: a session that expires now or later stays as it was, a
\* session created in the meantime included, and no strictly expired one is left.
C24_SweepRemovesExpiredOnly ==
    [][cleanupExpiredSessions
       => /\ DOMAIN sessions' \subseteq DOMAIN sessions
          /\ \A s \in DOMAIN sessions :
                IF sessions[s].expiresAt < now
                THEN s \notin DOMAIN sessions'
                ELSE s \in DOMAIN sessions' /\ sessions'[s] = sessions[s]
          /\ \A s \in DOMAIN sessions' : sessions'[s].expiresAt >= now]_vars

\* a sweep has run that removed the first session and kept the second, which
\* expires at this very moment
C24_Witness ==
    /\ result.op = "cleanupExpiredSessions"
    /\ sessionIds = 2
    /\ DOMAIN sessions = {2}
    /\ sessions[2].expiresAt = now

\* C25: logout of a session that is present removes that session and no other,
\* and reports success; logout of a session id that was removed before or was
\* never issued reports 'Session not found' and leaves the sessions as they were.
C25_LogoutRemovesOneSession ==
    [][\A sessionId \in SessionIdInputs :
          logout(sessionId)
          => IF sessionId \in DOMAIN sessions
             THEN /\ DOMAIN sessions' = DOMAIN sessions \ {sessionId}
                  /\ Cardinality(DOMAIN sessions') = Cardinality(DOMAIN sessions) - 1
                  /\ \A s \in DOMAIN sessions' : sessions'[s] = sessions[s]
                  /\ result'.outcome = "returned" /\ result'.value.success
             ELSE /\ sessions' = sessions
                  /\ result'.outcome = "returned" /\ ~result'.value.success
                  /\ result'.value.message = "Session not found"]_vars

\* a logout found nothing for a session id although two sessions were issued and
\* one of them is still there
C25_Witness ==
    /\ result.op = "logout" /\ ~result.value.success
    /\ sessionIds = 2
    /\ Cardinality(DOMAIN sessions) = 1

\* C26: a login that succeeds adds one session, bound to the user who logged in,
\* and sets that user's last-login, changing nothing else in the user store; a
\* login that fails (unknown email, deactivated account, wrong password) adds no
\* session, returns no token and leaves every user record as it was.
C26_LoginAddsOneSession ==
    [][/\ \A e \in LoginEmails, p \in Passwords :
             LoginCall(e, p)
             => /\ sessions' = sessions /\ users' = users /\ issuedTokens' = issuedTokens
                /\ result'.outcome # "returned"
       /\ \A call \in DOMAIN authCalls :
             (call.op = "login" /\ LoginResume(call))
             => IF result'.outcome = "returned"
                THEN /\ call.isValidPassword
                     /\ \E s \in DOMAIN sessions' :
                           /\ DOMAIN sessions' = DOMAIN sessions \cup {s}
                           /\ s \notin DOMAIN sessions
                           /\ s = result'.value.sessionId
                           /\ sessions'[s].userId = call.userId
                           /\ sessions'[s].token = result'.value.token
                     /\ \A s \in DOMAIN sessions : sessions'[s] = sessions[s]
                     /\ result'.value.token.userId = call.userId
                     /\ users' = [users EXCEPT ![call.userId].lastLogin = now]
                ELSE /\ result'.outcome = "threw" /\ result'.value = <<>>
                     /\ sessions' = sessions /\ users' = users
                     /\ issuedTokens' = issuedTokens]_vars

\* a second login of the same user succeeded at a later time: two sessions, and
\* the last-login moved
C26_Witness ==
    /\ result.op = "login" /\ result.outcome = "returned"
    /\ Cardinality(DOMAIN sessions) = 2
    /\ now > 0
    /\ \E u \in DOMAIN users : users[u].lastLogin = now

\* C27: updateUserRole called by an actor without the wildcard permission fails
\* with 'Insufficient permissions', called with a role name that is not a known
\* role it fails with 'Invalid role specified', and in both cases the user records
\* are as before.
C27_UpdateRoleRefusals ==
    [][\A a \in UserIds, t \in UserIds, r \in RoleInputs :
          (Exists(a) /\ Exists(t) /\ updateUserRole(a, t, r))
          => /\ hasPermission(a, "*") # "true"
                => /\ result'.outcome = "threw"
                   /\ result'.error = "Insufficient permissions"
                   /\ users' = users
             /\ (hasPermission(a, "*") = "true" /\ r \notin DOMAIN roles)
                => /\ result'.outcome = "threw"
                   /\ result'.error = "Invalid role specified"
                   /\ users' = users]_vars

\* C28: deactivateUser called by an actor whose permissions do not hold the
\* wildcard fails, leaves the target active and every user record as it was, and
\* leaves the sessions as they were.
C28_DeactivateNeedsWildcard ==
    [][\A a \in UserIds, t \in UserIds :
          (/\ Exists(a) /\ Exists(t)
           /\ "*" \notin users[a].permissions
           /\ deactivateUser(a, t))
          => /\ result'.op = "deactivateUser" /\ result'.outcome = "threw"
             /\ users' = users
             /\ sessions' = sessions]_vars

\* an actor without the wildcard was refused while the target is active and holds
\* a session
C28_Witness ==
    /\ result.op = "deactivateUser"
    /\ result.error = "Insufficient permissions"
    /\ \E s \in DOMAIN sessions : users[sessions[s].userId].isActive

\* C32: no stored password is one of the plaintext passwords that were given to
\* register or changePassword, and no user view an operation returns (register,
\* login, verifyToken, updateProfile, updateUserRole, getAllUsers) has a password
\* field, whatever passwords were changed before.
C32_NoCredentialLeaves ==
    /\ \A u \in DOMAIN users : users[u].password \notin Passwords
    /\ result.outcome = "returned"
       => CASE result.op \in {"register", "updateProfile", "updateUserRole"} ->
                   "password" \notin DOMAIN result.value
            [] result.op = "login" ->
                   /\ "password" \notin DOMAIN result.value.user
                   /\ "password" \notin DOMAIN result.value.token
            [] result.op = "verifyToken" ->
                   result.value.success
                   => /\ "password" \notin DOMAIN result.value.user
                      /\ "password" \notin DOMAIN result.value.decoded
            [] result.op = "getAllUsers" ->
                   \A i \in DOMAIN result.value.users :
                       "password" \notin DOMAIN result.value.users[i]
            [] OTHER -> TRUE

\* the user list was returned after a user's password was changed to "123"
C32_Witness ==
    /\ result.op = "getAllUsers" /\ result.outcome = "returned"
    /\ Len(result.value.users) = 2
    /\ \E u \in DOMAIN users :
          /\ users[u].password = BcryptHash("123")
          /\ users[u].email = toLowerCase(EmailAUpper)

\* C34: register stores a user only for a well-formed input: the user a
\* registration stores has an email with an '@' between two non-empty parts, and
\* a password that is not the short '123'.
C34_RegisterValidatesInput ==
    [][\A call \in DOMAIN authCalls :
          (call.op = "register" /\ RegisterResume(call))
          => LET email == call.data.email
             IN  /\ \E i \in 2..(Len(email) - 1) : email[i] = "@"
                 /\ call.data.password # "123"]_vars

\* C36: every session belongs to a stored user who is active, also when the user
\* was deactivated while a login of theirs was suspended at the password check.
C36_SessionsOfActiveUsers ==
    \A s \in DOMAIN sessions :
        /\ Exists(sessions[s].userId)
        /\ users[sessions[s].userId].isActive

\* C14: an endConversation by the owner of a conversation that is already ended
\* throws, leaves its status and end time as they were and emits no event.
C14_EndedRejectsEnd ==
    [][\A u \in ChatUserIds, c \in DOMAIN conversations :
          (/\ conversations[c].userId = u
           /\ conversations[c].status = "ended"
           /\ endConversation(u, c))
          => /\ result'.op = "endConversation" /\ result'.outcome = "threw"
             /\ conversations'[c].status = conversations[c].status
             /\ conversations'[c].endedAt = conversations[c].endedAt
             /\ emitted' = <<>>]_vars

\* C15: when the model of the conversation's agent has no provider, the
\* sendMessage or startConversation that asked for the reply throws; no fallback
\* message is put in its place and nothing is stored.
C15_UnsupportedModelPropagates ==
    [][\A call \in DOMAIN chatCalls :
          LET agentId == IF call.op = "start" THEN call.conversation.agentId
                         ELSE conversations[call.conversationId].agentId
          IN  (/\ providerOf(Agent(agentId).model) = ""
               /\ \/ SendMessageResume(call, "throws")
                  \/ StartConversationResume(call, "throws"))
              => /\ result'.outcome = "threw"
                 /\ conversations' = conversations]_vars

\* C16: a conversation that holds a user message without a reply after it
\* eventually holds as many replies as user messages: every sendMessage that pushed
\* its user message goes on to push an agent message, also when the provider
\* does not answer.
C16_EveryMessageAnswered ==
    \A c \in 1..MaxConvs :
        LET count(type) ==
                Cardinality({i \in 1..Len(conversations[c].messages) :
                                conversations[c].messages[i].type = type})
            unanswered == c \in DOMAIN conversations /\ count("user") >= count("agent")
        IN  unanswered ~> ~unanswered

\* C17: a conversation that holds 10 messages or more, written by sendMessage
\* calls that ran one after another, has a summary that is not the empty one it
\* started with.
C17_SummaryAfterTen ==
    \A c \in DOMAIN conversations :
        (chatCalls = EmptyBag /\ Len(conversations[c].messages) >= SummaryEvery)
        => conversations[c].context.conversationSummary # <<>>

\* C18: the context a sendMessage hands to the reply handler holds at most 10
\* messages and is the last min(10, n) stored messages in their stored order, n
\* counted when the provider is called; the stored list loses nothing, it is the
\* earlier list with the user message appended.
C18_ContextIsRecentWindow ==
    [][\A call \in DOMAIN chatCalls' :
          (call.op = "send" /\ ~BagIn(call, chatCalls))
          => LET before == conversations[call.conversationId].messages
                 stored == conversations'[call.conversationId].messages
                 n == Len(stored)
                 k == IF n < 10 THEN n ELSE 10
                 recent == call.context.recentMessages
             IN  /\ Len(recent) = k
                 /\ \A i \in 1..k :
                        /\ recent[i].type = stored[n - k + i].type
                        /\ recent[i].content = stored[n - k + i].content
                 /\ n = Len(before) + 1
                 /\ SubSeq(stored, 1, Len(before)) = before]_vars

\* a call is suspended on a conversation of more than 10 messages, with a context of 10
C18_Witness ==
    \E call \in DOMAIN chatCalls :
        /\ call.op = "send"
        /\ Len(conversations[call.conversationId].messages) > 10
        /\ Len(call.context.recentMessages) = 10

\* C19: across every step the stored conversations stay, each with the same owner
\* and persona, and each message list grows only at its end: the earlier list is
\* a prefix of the later one.
C19_MessagesAppendOnly ==
    [][/\ DOMAIN conversations \subseteq DOMAIN conversations'
       /\ \A c \in DOMAIN conversations :
             LET before == conversations[c]
                 after == conversations'[c]
             IN  /\ after.userId = before.userId
                 /\ after.agentId = before.agentId
                 /\ Len(after.messages) >= Len(before.messages)
                 /\ SubSeq(after.messages, 1, Len(before.messages)) = before.messages]_vars

\* a sendMessage has returned on a conversation that holds the greeting, a user
\* message and what followed
C19_Witness ==
    \E c \in DOMAIN conversations :
        /\ Len(conversations[c].messages) >= 3
        /\ conversations[c].messages[1].type = "agent"
        /\ conversations[c].messages[2].type = "user"
        /\ result.op = "sendMessage" /\ result.outcome = "returned"

C21_DeliveryFollowsListOrder ==
    [][\A d \in delivered' :
          d.message.type = "newMessage"
          => LET c == d.message.conversationId
                 before == IF c \in DOMAIN conversations THEN conversations[c].messages ELSE <<>>
                 after == conversations'[c].messages
             IN  /\ Len(after) > Len(before)
                 /\ SubSeq(after, 1, Len(before)) = before
                 /\ after[Len(after)] = d.message.message]_vars

\* two calls overlapped on one conversation (both user messages were stored before
\* either reply) and the reply of the second one to finish has been delivered
C21_Witness ==
    \E c \in DOMAIN conversations :
        LET messages == conversations[c].messages
        IN  /\ Len(messages) = 5
            /\ messages[2].type = "user" /\ messages[3].type = "user"
            /\ messages[4] # messages[5]
            /\ \E d \in delivered :
                  d.message.conversationId = c /\ d.message.message = messages[5]

\* C22: in the connection registry no user maps to an empty set, a closed socket
\* is in no set, and a user has an entry exactly when one of the sockets registered
\* for them has not closed.
C22_RegistryHoldsLiveSockets ==
    /\ \A u \in DOMAIN activeConnections :
          /\ activeConnections[u] # {}
          /\ activeConnections[u] \cap closed = {}
    /\ \A u \in UserIds :
          u \in DOMAIN activeConnections
          <=> \E sk \in Sockets : <<u, sk>> \in listeners /\ sk \notin closed

\* C23: when a sendMessage broadcasts its reply and one of the owner's sockets has
\* a closed transport, the call still returns, every other socket of the owner
\* receives the event, and the closed socket is no longer in the owner's set.
C23_BroadcastDropsClosedSocket ==
    [][\A call \in DOMAIN chatCalls, o \in {"responds", "throws"} :
          (/\ call.op = "send"
           /\ call.userId \in DOMAIN activeConnections
           /\ SendMessageResume(call, o))
          => LET registered == activeConnections[call.userId]
             IN  /\ result'.op = "sendMessage" /\ result'.outcome = "returned"
                 /\ \A sk \in registered \ closed :
                        \E d \in delivered' : d.socket = sk /\ d.message.type = "newMessage"
                 /\ \A sk \in registered \cap closed :
                        \/ call.userId \notin DOMAIN activeConnections'
                        \/ sk \notin activeConnections'[call.userId]]_vars

\* C29: startConversation with an agent id that is not in agentProfiles fails
\* with 'Agent not found' whoever the user is, stores no conversation, suspends
\* no call and emits nothing.
C29_UnknownAgentNotFound ==
    [][\A u \in ChatUserIds, a \in AnyAgentInputs, m \in InitialMessages :
          (a \notin DOMAIN agentProfiles /\ StartConversationCall(u, a, m))
          => /\ result'.outcome = "threw"
             /\ result'.error = "Agent not found"
             /\ conversations' = conversations
             /\ chatCalls' = chatCalls
             /\ emitted' = <<>>]_vars

\* C30: a startConversation that succeeds returns the conversation it stores, in
\* status active: without an initial message its messages are the greeting alone
\* and it returns at once; with one it returns only after the provider call, and
\* the messages are the greeting, the user's message and one reply, in that order.
C30_StartStoresGreetingThenExchange ==
    [][/\ \A u \in ChatUserIds, a \in AnyAgentInputs, m \in InitialMessages :
             StartConversationCall(u, a, m)
             => IF result'.outcome = "returned"
                THEN /\ m = <<>>
                     /\ Len(conversations') = Len(conversations) + 1
                     /\ LET stored == conversations'[Len(conversations')]
                        IN  /\ stored.status = "active"
                            /\ stored.userId = u /\ stored.agentId = a
                            /\ stored.messages = <<greetingMessageOf(a)>>
                            /\ result'.value.messages = stored.messages
                            /\ result'.value.status = "active"
                ELSE conversations' = conversations
       /\ \A call \in DOMAIN chatCalls, o \in {"responds", "throws"} :
             (call.op = "start" /\ StartConversationResume(call, o))
             => /\ result'.op = "startConversation" /\ result'.outcome = "returned"
                /\ Len(conversations') = Len(conversations) + 1
                /\ LET stored == conversations'[Len(conversations')]
                       a == call.conversation.agentId
                   IN  /\ stored.status = "active"
                       /\ Len(stored.messages) = 3
                       /\ stored.messages[1] = greetingMessageOf(a)
                       /\ stored.messages[2].type = "user"
                       /\ stored.messages[2].userId = stored.userId
                       /\ stored.messages[2].content = PlainText(call.message)
                       /\ stored.messages[3] = (IF o = "responds"
                                                THEN agentMessageOf(a, call.message)
                                                ELSE fallbackMessageOf(a))
                       /\ result'.value.messages = stored.messages
                       /\ result'.value.status = "active"]_vars

\* a startConversation with an initial message has returned a conversation of
\* three messages that ends with the provider's reply
C30_Witness ==
    /\ result.op = "startConversation" /\ result.outcome = "returned"
    /\ Len(result.value.messages) = 3
    /\ result.value.messages[2].content = PlainText(TextGoPlans)
    /\ result.value.messages[3] = agentMessageOf(result.value.agentId, TextGoPlans)
    /\ conversations[Len(conversations)].messages = result.value.messages

\* C31: a step in which startConversation, sendMessage or endConversation returns
\* emits one event, of the kind of the operation, and the state the event reports
\* is in place when it is emitted (the conversation is stored, the exchange is in
\* the message list, the status is ended); every other step emits nothing, a
\* step in which an operation throws included.
C31_OneEventPerSuccess ==
    [][IF result'.outcome = "returned" /\ result'.op = "startConversation"
       THEN /\ Len(emitted') = 1
            /\ emitted'[1].event = "conversationStarted"
            /\ emitted'[1].conversationId = Len(conversations')
            /\ Len(conversations') = Len(conversations) + 1
            /\ conversations'[Len(conversations')].userId = emitted'[1].userId
            /\ conversations'[Len(conversations')].agentId = emitted'[1].agentId
       ELSE IF result'.outcome = "returned" /\ result'.op = "sendMessage"
       THEN /\ Len(emitted') = 1
            /\ emitted'[1].event = "messageSent"
            /\ LET messages == conversations'[emitted'[1].conversationId].messages
               IN  /\ messages[Len(messages)] = emitted'[1].response
                   /\ \E i \in 1..Len(messages) : messages[i] = emitted'[1].message
       ELSE IF result'.outcome = "returned" /\ result'.op = "endConversation"
       THEN /\ Len(emitted') = 1
            /\ emitted'[1].event = "conversationEnded"
            /\ conversations'[emitted'[1].conversationId].status = "ended"
            /\ conversations'[emitted'[1].conversationId].userId = emitted'[1].userId
       ELSE emitted' = <<>>]_vars

\* an endConversation has returned and announced the end of a conversation that
\* holds an exchange
C31_Witness ==
    /\ result.op = "endConversation" /\ result.outcome = "returned"
    /\ Len(emitted) = 1
    /\ emitted[1].event = "conversationEnded"
    /\ Len(conversations[emitted[1].conversationId].messages) >= 3

\* C33: canAccessAgent answers true exactly when the user exists and agentAccess
\* holds 'all_agents' or the agent id, and false otherwise, an unknown user
\* included; hasPermission answers true exactly when the user exists and
\* permissions holds '*' or the permission, and false otherwise.
C33_AccessIsMembership ==
    \A u \in ChatUserIds :
        /\ \A a \in AnyAgentInputs :
              canAccessAgent(u, a) =
                  (IF Exists(u) /\ ("all_agents" \in users[u].agentAccess \/ a \in users[u].agentAccess)
                   THEN "true" ELSE "false")
        /\ \A p \in {"*", "view_analytics", "manage_budgets"} :
              hasPermission(u, p) =
                  (IF Exists(u) /\ ("*" \in users[u].permissions \/ p \in users[u].permissions)
                   THEN "true" ELSE "false")

\* C35: activeTopics never holds a topic twice and only grows, and only when a
\* sendMessage completes: that step keeps the topics there were, in place, and
\* adds those of the first five lowercased words of four characters or more of
\* its message that were not there, so after any calls, in any order of
\* completion, the topics are the union of the candidates of the messages.
C35_TopicsAreUnionOfCandidates ==
    [][\A c \in DOMAIN conversations :
          LET before == conversations[c].context.activeTopics
              after == conversations'[c].context.activeTopics
              Set(xs) == {xs[i] : i \in 1..Len(xs)}
          IN  /\ Cardinality(Set(after)) = Len(after)
              /\ Len(after) >= Len(before)
              /\ SubSeq(after, 1, Len(before)) = before
              /\ Len(after) - Len(before) <= 5
              /\ \A call \in DOMAIN chatCalls, o \in {"responds", "throws"} :
                    (call.op = "send" /\ call.conversationId = c /\ SendMessageResume(call, o))
                    => LET words == SelectSeq(WordRuns(toLowerCase(call.message), 1, <<>>),
                                              LAMBDA w : Len(w) >= 4)
                           candidates == {words[i] : i \in 1..Len(words) \cap 1..5}
                       IN  Set(after) = Set(before) \cup candidates
              /\ (\A call \in DOMAIN chatCalls, o \in {"responds", "throws"} :
                     ~(call.op = "send" /\ call.conversationId = c /\ SendMessageResume(call, o)))
                 => after = before]_vars

\* both texts were sent on one conversation: six topics, the sixth word of the
\* long text among them only because the short text brought it
C35_Witness ==
    \E c \in DOMAIN conversations :
        /\ Len(conversations[c].context.activeTopics) = 6
        /\ chatCalls = EmptyBag
        /\ conversations[c].context.activeTopics[1] = <<"f", "f", "f", "f">>

\* C37: while no sendMessage is suspended on a conversation, its messages are the
\* greeting followed by user and agent messages in strict alternation, each reply
\* right after a user message, also after calls on it overlapped.
C37_StrictAlternation ==
    \A c \in DOMAIN conversations :
        (\A call \in DOMAIN chatCalls : call.op = "send" => call.conversationId # c)
        => LET messages == conversations[c].messages
           IN  /\ messages[1] = greetingMessageOf(conversations[c].agentId)
               /\ \A i \in 2..Len(messages) :
                      messages[i].type = (IF i % 2 = 0 THEN "user" ELSE "agent")

\* C38: a sendMessage by the owner of a conversation, made when the owner can
\* not access the conversation's agent (any more), is refused and changes no
\* conversation.
C38_SendNeedsAgentAccess ==
    [][\A u \in ChatUserIds, c \in DOMAIN conversations, m \in MessageTexts :
          (/\ conversations[c].userId = u
           /\ canAccessAgent(u, conversations[c].agentId) # "true"
           /\ SendMessageCall(u, c, m))
          => /\ result'.outcome = "threw"
             /\ conversations' = conversations
             /\ chatCalls' = chatCalls]_vars

\* C39: a sendMessage, at its call and at its return, and an endConversation on
\* one conversation leave every other conversation as it was, and an
\* endConversation leaves the suspended calls as they were.
C39_OtherConversationsUntouched ==
    [][/\ \A u \in UserIds, a \in DOMAIN conversations, m \in MessageTexts :
             SendMessageBeside(u, a, m)
             => \A b \in DOMAIN conversations \ {a} : conversations'[b] = conversations[b]
       /\ \A call \in DOMAIN chatCalls, o \in {"responds", "throws"} :
             (call.op = "send" /\ SendMessageResume(call, o))
             => /\ \A b \in DOMAIN conversations \ {call.conversationId} :
                      conversations'[b] = conversations[b]
                /\ \A other \in DOMAIN chatCalls' : BagIn(other, chatCalls)
       /\ \A u \in ChatUserIds, a \in ConversationIds :
             endConversation(u, a)
             => /\ \A b \in DOMAIN conversations \ {a} : conversations'[b] = conversations[b]
                /\ chatCalls' = chatCalls]_vars

\* a sendMessage on one conversation has returned while a sendMessage on the
\* other conversation is still suspended at its provider call
C39_Witness ==
    /\ result.op = "sendMessage" /\ result.outcome = "returned"
    /\ \E call \in DOMAIN chatCalls :
          /\ call.op = "send"
          /\ call.conversationId # result.value.conversationId
          /\ conversations[call.conversationId].status = "active"

====
